---- MODULE Spec2Model ----
(***************************************************************************)
(* Single-instance coordination and deep-link relay of app/os_unix.go:     *)
(* init() probes the unix socket file, removes a stale one, binds it or    *)
(* relays os.Args to the running instance; listenToSocketConn() accepts    *)
(* connections and turns each payload into transfer.URLEvent values.       *)
(***************************************************************************)
EXTENDS Integers, Sequences, FiniteSets, TLC

\* ------------------------------------------------------------- bounds
NumProcs == 3        \* processes launched against the same socketFile
MaxArgs == 2         \* os.Args[1:] holds at most this many arguments
MaxArgLen == 1       \* each argument holds at most this many bytes
MaxWindows == 2      \* successful newWindow calls per process (main() makes one)
MaxAcceptErrs == 1   \* errors returned by socketConn.Accept, all processes together

Procs == 1..NumProcs

\* ------------------------------------------------------------- bytes
\* The bytes an argument is made of: a letter, the colon and the newline
\* that init() joins with and listenToSocketConn() splits on.
NL == "\n"
Letter == "a"
Colon == ":"
Bytes == {Letter, Colon, NL}

RECURSIVE StrsUpTo(_)
StrsUpTo(n) ==
    IF n = 0 THEN {<<>>}
    ELSE LET shorter == StrsUpTo(n - 1)
         IN  shorter \cup {Append(s, b) : s \in {t \in shorter : Len(t) = n - 1}, b \in Bytes}

Strs == StrsUpTo(MaxArgLen)

RECURSIVE ListsUpTo(_)
ListsUpTo(n) ==
    IF n = 0 THEN {<<>>}
    ELSE LET shorter == ListsUpTo(n - 1)
         IN  shorter \cup {Append(l, s) : l \in {t \in shorter : Len(t) = n - 1}, s \in Strs}

\* os.Args[1:] of a launch
ArgLists == ListsUpTo(MaxArgs)

\* ------------------------------------------------------------- pure functions
\* strings.Join(elems, "\n")
RECURSIVE Join(_)
Join(elems) ==
    IF Len(elems) = 0 THEN <<>>
    ELSE IF Len(elems) = 1 THEN elems[1]
    ELSE elems[1] \o <<NL>> \o Join(Tail(elems))

\* strings.Split(s, "\n"): always at least one piece, the pieces between
\* the separators, empty pieces kept.
RECURSIVE SplitFrom(_, _)
SplitFrom(s, cur) ==
    IF Len(s) = 0 THEN <<cur>>
    ELSE IF Head(s) = NL THEN <<cur>> \o SplitFrom(Tail(s), <<>>)
    ELSE SplitFrom(Tail(s), Append(cur, Head(s)))

Split(s) == SplitFrom(s, <<>>)

\* Index of the first colon of s, 0 when there is none.
RECURSIVE FirstColonFrom(_, _)
FirstColonFrom(s, i) ==
    IF i > Len(s) THEN 0
    ELSE IF s[i] = Colon THEN i
    ELSE FirstColonFrom(s, i + 1)

FirstColon(s) == FirstColonFrom(s, 1)

\* url.Parse on the bytes above: a control byte is an error ("invalid
\* control character in URL"), a leading colon is an error ("missing
\* protocol scheme"); letters up to the first colon are the scheme and the
\* rest the opaque part; without a colon the whole string is the path.
HasCTL(s) == \E i \in 1..Len(s) : s[i] = NL

ParseOK(s) == ~HasCTL(s) /\ FirstColon(s) # 1

Parse(s) ==
    LET c == FirstColon(s)
    IN  IF c = 0
        THEN [Scheme |-> <<>>, Opaque |-> <<>>, Path |-> s]
        ELSE [Scheme |-> SubSeq(s, 1, c - 1),
              Opaque |-> SubSeq(s, c + 1, Len(s)),
              Path   |-> <<>>]

\* (*url.URL).String()
URLString(u) ==
    IF Len(u.Scheme) > 0 THEN u.Scheme \o <<Colon>> \o u.Opaque
    ELSE u.Path


\* listenToSocketConn's loop over args: every fragment is parsed in order,
\* each parsed URL is one window.Event, and the first parse error returns
\* from the handler.
RECURSIVE Dispatched(_)
Dispatched(frags) ==
    IF Len(frags) = 0 THEN <<>>
    ELSE IF ~ParseOK(Head(frags)) THEN <<>>
    ELSE <<Parse(Head(frags))>> \o Dispatched(Tail(frags))

\* ------------------------------------------------------------- state
VARIABLES
    pc,        \* where each process is in init() / main()
    probe,     \* how init() classified the error of net.Dial
    status,    \* "running" or how the process ended
    dials,     \* number of net.Dial calls the process has made
    socketConn, \* the listener of each process: "nil", "open" or "closed"
    loops,     \* listenToSocketConn goroutines started (one per window)
    socketFile, \* the socket file: whether it exists and whose bind made it
    backlog,   \* connections queued on each listener, oldest first
    conn,      \* the connection each process dialled
    args,      \* os.Args[1:] of each process that relayed
    sink,      \* the events each process's windows received, in order
    mimeType,  \* the mimeType the binary was built with, "" when none
    acceptErrs \* errors socketConn.Accept has returned in each process

vars == <<pc, probe, status, dials, socketConn, loops, socketFile, backlog, conn, args,
          sink, mimeType, acceptErrs>>

NoConn == [to |-> 0, st |-> "none", win |-> 0, data |-> <<>>, closed |-> FALSE]

\* The socket file of a previous run that ended without removing it has
\* owner 0: no process of this run listens on it.
NoFile == [exists |-> FALSE, owner |-> 0]
StaleFile == [exists |-> TRUE, owner |-> 0]

\* The binary is built with a mimeType or without one (-ldflags -X).
MimeTypes == {"", "x-scheme-handler/custom-uri"}

\* Every process is about to run init(). A process that has not dialled yet
\* has not been seen by any other, so it stands for a launch at any later
\* time.
Init ==
    /\ pc = [p \in Procs |-> "dial"]
    /\ probe = [p \in Procs |-> "None"]
    /\ status = [p \in Procs |-> "running"]
    /\ dials = [p \in Procs |-> 0]
    /\ socketConn = [p \in Procs |-> "nil"]
    /\ loops = [p \in Procs |-> 0]
    /\ socketFile \in {NoFile, StaleFile}
    /\ backlog = [p \in Procs |-> <<>>]
    /\ conn = [p \in Procs |-> NoConn]
    /\ args = [p \in Procs |-> <<>>]
    /\ sink = [p \in Procs |-> <<>>]
    /\ mimeType \in MimeTypes
    /\ acceptErrs = [p \in Procs |-> 0]

\* Listening with connections refused until an accept loop runs.
ListeningOnceServing(q) == q \in Procs /\ socketConn[q] = "open" /\ loops[q] >= 1

\* A listener accepts connections from net.Listen on, while its process
\* runs and has not closed it, whether or not an accept loop runs yet.
Listening(q) == q \in Procs /\ socketConn[q] = "open"

\* ------------------------------------------------------------- init()
\* Probing with the check of mimeType left out.
ProbingAlways(p) == pc[p] = "dial"

\* init() goes on to net.Dial only when mimeType is set.
Probing(p) == pc[p] = "dial" /\ mimeType # ""

\* mimeType is empty: init() returns at once and main() runs.
InitDisabled(p) ==
    /\ pc[p] = "dial"
    /\ mimeType = ""
    /\ pc' = [pc EXCEPT ![p] = "app"]
    /\ UNCHANGED <<probe, status, dials, socketConn, loops, socketFile, backlog, conn, args, sink, mimeType, acceptErrs>>

\* net.Dial succeeds: the socket file exists and its listener is open. The
\* connection waits in the listener's backlog until it is accepted.
DialOK(p) ==
    /\ Probing(p)
    /\ socketFile.exists /\ Listening(socketFile.owner)
    /\ dials' = [dials EXCEPT ![p] = @ + 1]
    /\ probe' = [probe EXCEPT ![p] = "Alive"]
    /\ conn' = [conn EXCEPT ![p] = [NoConn EXCEPT !.to = socketFile.owner, !.st = "queued"]]
    /\ backlog' = [backlog EXCEPT ![socketFile.owner] = Append(@, p)]
    /\ pc' = [pc EXCEPT ![p] = "write"]
    /\ UNCHANGED <<status, socketConn, loops, socketFile, args, sink, mimeType, acceptErrs>>

\* net.Dial fails with ECONNREFUSED: the file exists, nothing listens.
DialRefused(p) ==
    /\ Probing(p)
    /\ socketFile.exists /\ ~Listening(socketFile.owner)
    /\ dials' = [dials EXCEPT ![p] = @ + 1]
    /\ probe' = [probe EXCEPT ![p] = "Stale"]
    /\ pc' = [pc EXCEPT ![p] = "remove"]
    /\ UNCHANGED <<status, socketConn, loops, socketFile, backlog, conn, args, sink, mimeType, acceptErrs>>

\* DialNoEnt with os.Remove called on every dial error, not only on
\* ECONNREFUSED.
DialNoEntRemoves(p) ==
    /\ Probing(p)
    /\ ~socketFile.exists
    /\ dials' = [dials EXCEPT ![p] = @ + 1]
    /\ probe' = [probe EXCEPT ![p] = "Absent"]
    /\ pc' = [pc EXCEPT ![p] = "remove"]
    /\ UNCHANGED <<status, socketConn, loops, socketFile, backlog, conn, args, sink, mimeType, acceptErrs>>

\* net.Dial fails with ENOENT: there is no socket file.
DialNoEnt(p) ==
    /\ Probing(p)
    /\ ~socketFile.exists
    /\ dials' = [dials EXCEPT ![p] = @ + 1]
    /\ probe' = [probe EXCEPT ![p] = "Absent"]
    /\ pc' = [pc EXCEPT ![p] = "listen"]
    /\ UNCHANGED <<status, socketConn, loops, socketFile, backlog, conn, args, sink, mimeType, acceptErrs>>

\* DialOther with the check for other errors left out: init() goes on to
\* net.Listen as after ENOENT.
DialOtherIgnored(p) ==
    /\ Probing(p)
    /\ dials' = [dials EXCEPT ![p] = @ + 1]
    /\ probe' = [probe EXCEPT ![p] = "Other"]
    /\ pc' = [pc EXCEPT ![p] = "listen"]
    /\ UNCHANGED <<status, socketConn, loops, socketFile, backlog, conn, args, sink, mimeType, acceptErrs>>

\* net.Dial fails with any other error: log.Fatal.
DialOther(p) ==
    /\ Probing(p)
    /\ dials' = [dials EXCEPT ![p] = @ + 1]
    /\ probe' = [probe EXCEPT ![p] = "Other"]
    /\ status' = [status EXCEPT ![p] = "exit1"]
    /\ pc' = [pc EXCEPT ![p] = "exited"]
    /\ UNCHANGED <<socketConn, loops, socketFile, backlog, conn, args, sink, mimeType, acceptErrs>>

\* Remove with the os.Remove call left out.
RemoveSkipped(p) ==
    /\ pc[p] = "remove"
    /\ pc' = [pc EXCEPT ![p] = "listen"]
    /\ UNCHANGED <<probe, status, dials, socketConn, loops, socketFile, backlog, conn, args, sink, mimeType, acceptErrs>>

\* os.Remove(socketFile) after ECONNREFUSED: removes whatever file is at
\* the path now; its error is ignored.
Remove(p) ==
    /\ pc[p] = "remove"
    /\ socketFile' = NoFile
    /\ pc' = [pc EXCEPT ![p] = "listen"]
    /\ UNCHANGED <<probe, status, dials, socketConn, loops, backlog, conn, args, sink, mimeType, acceptErrs>>

\* What init() does when net.Listen fails: log.Fatal.
AfterListenError(p) ==
    /\ status' = [status EXCEPT ![p] = "exit1"]
    /\ pc' = [pc EXCEPT ![p] = "exited"]
    /\ UNCHANGED <<probe, dials, socketConn, loops, socketFile, backlog, conn, args, sink, mimeType, acceptErrs>>

\* net.Listen: binding creates the socket file and fails with EADDRINUSE
\* when a file is already at the path.
Listen(p) ==
    /\ pc[p] = "listen"
    /\ IF socketFile.exists
       THEN AfterListenError(p)
       ELSE /\ socketFile' = [exists |-> TRUE, owner |-> p]
            /\ socketConn' = [socketConn EXCEPT ![p] = "open"]
            /\ pc' = [pc EXCEPT ![p] = "desktop"]
            /\ UNCHANGED <<probe, status, dials, loops, backlog, conn, args, sink, mimeType, acceptErrs>>

\* createDesktopEntry succeeds: init() returns and main() runs.
DesktopOK(p) ==
    /\ pc[p] = "desktop"
    /\ pc' = [pc EXCEPT ![p] = "app"]
    /\ UNCHANGED <<probe, status, dials, socketConn, loops, socketFile, backlog, conn, args, sink, mimeType, acceptErrs>>

\* createDesktopEntry fails: socketConn.Close(), which also unlinks the
\* path the listener was bound to, then log.Fatal.
DesktopFail(p) ==
    /\ pc[p] = "desktop"
    /\ socketConn' = [socketConn EXCEPT ![p] = "closed"]
    /\ socketFile' = NoFile
    /\ status' = [status EXCEPT ![p] = "exit1"]
    /\ pc' = [pc EXCEPT ![p] = "exited"]
    /\ UNCHANGED <<probe, dials, loops, backlog, conn, args, sink, mimeType, acceptErrs>>

\* Payload with only os.Args[1] written.
PayloadFirstOnly(a) == IF Len(a) >= 1 THEN a[1] ELSE <<>>

\* The bytes init() writes on the connection: nothing without arguments
\* (len(os.Args) > 1), else the arguments joined by newlines.
Payload(a) == IF Len(a) >= 1 THEN Join(a) ELSE <<>>

\* AfterRelay with the log.Fatal left out: init() goes on to net.Listen.
AfterRelayFallThrough(p) ==
    /\ pc' = [pc EXCEPT ![p] = "listen"]
    /\ UNCHANGED <<probe, status, dials, socketConn, loops, socketFile, backlog, args, sink, mimeType, acceptErrs>>

\* What init() does after c.Write and c.Close: log.Fatal.
AfterRelay(p) ==
    /\ status' = [status EXCEPT ![p] = "exit1"]
    /\ pc' = [pc EXCEPT ![p] = "exited"]
    /\ UNCHANGED <<probe, dials, socketConn, loops, socketFile, backlog, args, sink, mimeType, acceptErrs>>

\* c.Write: the bytes arrive unless the peer process is gone or its handler
\* has closed the connection after a read error; the error is ignored.
\* os.Args is read here for the first time.
Write(p, a) ==
    /\ pc[p] = "write"
    /\ args' = [args EXCEPT ![p] = a]
    /\ conn' = [conn EXCEPT ![p].data =
                  IF status[conn[p].to] = "running" /\ conn[p].st # "failed"
                  THEN Payload(a) ELSE <<>>]
    /\ pc' = [pc EXCEPT ![p] = "close"]
    /\ UNCHANGED <<probe, status, dials, socketConn, loops, socketFile, backlog, sink, mimeType, acceptErrs>>

\* c.Close, then the process ends.
CloseConn(p) ==
    /\ pc[p] = "close"
    /\ conn' = [conn EXCEPT ![p].closed = TRUE]
    /\ AfterRelay(p)

\* ------------------------------------------------------------- main()
\* The window main() creates: newWindow succeeds and starts
\* go listenToSocketConn(window).
NewWindow(p) ==
    /\ pc[p] = "app"
    /\ loops[p] = 0
    /\ loops' = [loops EXCEPT ![p] = @ + 1]
    /\ UNCHANGED <<pc, probe, status, dials, socketConn, socketFile, backlog, conn, args, sink, mimeType, acceptErrs>>

\* The application opens one more window: newWindow starts another
\* listenToSocketConn on the same listener.
AnotherWindow(p) ==
    /\ pc[p] = "app"
    /\ loops[p] >= 1 /\ loops[p] < MaxWindows
    /\ loops' = [loops EXCEPT ![p] = @ + 1]
    /\ UNCHANGED <<pc, probe, status, dials, socketConn, socketFile, backlog, conn, args, sink, mimeType, acceptErrs>>

\* What the process does to the socket when it ends: the deferred cleanup
\* of listenToSocketConn never runs (its loop never returns, os.Exit runs
\* no deferred call), so the operating system closes the listener and the
\* socket file stays.
ExitCleanup(p) ==
    /\ socketConn' = [socketConn EXCEPT ![p] = IF @ = "nil" THEN "nil" ELSE "closed"]
    /\ UNCHANGED socketFile

\* loop() returns on DestroyEvent and main() calls os.Exit(0).
Exit(p) ==
    /\ pc[p] = "app"
    /\ ExitCleanup(p)
    /\ status' = [status EXCEPT ![p] = "exit0"]
    /\ pc' = [pc EXCEPT ![p] = "exited"]
    /\ UNCHANGED <<probe, dials, loops, backlog, conn, args, sink, mimeType, acceptErrs>>

\* A termination signal: the program installs no handler, the process dies.
Kill(p) ==
    /\ pc[p] = "app"
    /\ ExitCleanup(p)
    /\ status' = [status EXCEPT ![p] = "signal"]
    /\ pc' = [pc EXCEPT ![p] = "exited"]
    /\ UNCHANGED <<probe, dials, loops, backlog, conn, args, sink, mimeType, acceptErrs>>

\* ------------------------------------------------------------- listenToSocketConn
\* LoopFree with the handler run inside the accept loop instead of in its
\* own goroutine: the loop is back at Accept only when its handler is done.
LoopFreeInline(q, w) ==
    ~\E d \in Procs : conn[d].to = q /\ conn[d].win = w /\ conn[d].st = "accepted"

\* Whether accept loop w of process q is at socketConn.Accept: each
\* connection is handled by "go func(conn)", so the loop is always back at
\* Accept.
LoopFree(q, w) == TRUE

\* Accept with the connection left in the backlog: another Accept returns
\* it again.
AcceptNoDequeue(q, w) ==
    /\ pc[q] = "app"
    /\ w \in 1..loops[q]
    /\ socketConn[q] = "open"
    /\ LoopFree(q, w)
    /\ Len(backlog[q]) > 0
    /\ conn' = [conn EXCEPT ![Head(backlog[q])].st = "accepted",
                            ![Head(backlog[q])].win = w]
    /\ UNCHANGED <<pc, probe, status, dials, socketConn, loops, socketFile, backlog, args, sink, mimeType, acceptErrs>>

\* socketConn.Accept returns the oldest queued connection; its handler
\* goroutine starts and blocks in io.ReadAll.
Accept(q, w) ==
    /\ pc[q] = "app"
    /\ w \in 1..loops[q]
    /\ socketConn[q] = "open"
    /\ LoopFree(q, w)
    /\ Len(backlog[q]) > 0
    /\ conn' = [conn EXCEPT ![Head(backlog[q])].st = "accepted",
                            ![Head(backlog[q])].win = w]
    /\ backlog' = [backlog EXCEPT ![q] = Tail(@)]
    /\ UNCHANGED <<pc, probe, status, dials, socketConn, loops, socketFile, args, sink, mimeType, acceptErrs>>

\* The errors socketConn.Accept has returned so far, in all processes.
RECURSIVE SumUpTo(_, _)
SumUpTo(f, n) == IF n = 0 THEN 0 ELSE f[n] + SumUpTo(f, n - 1)

\* What accept loop w of process q does when socketConn.Accept returns an
\* error: "continue", the loop calls Accept again.
AfterAcceptError(q, w) == loops' = loops

\* socketConn.Accept returns an error in accept loop w of process q.
AcceptErr(q, w) ==
    /\ pc[q] = "app"
    /\ w \in 1..loops[q]
    /\ socketConn[q] # "nil"
    /\ LoopFree(q, w)
    /\ SumUpTo(acceptErrs, NumProcs) < MaxAcceptErrs
    /\ acceptErrs' = [acceptErrs EXCEPT ![q] = @ + 1]
    /\ AfterAcceptError(q, w)
    /\ UNCHANGED <<pc, probe, status, dials, socketConn, socketFile, backlog, conn, args, sink, mimeType>>

\* Events with the URLs sent last fragment first.
EventsReversed(c, w, bs) ==
    LET urls == Dispatched(Split(bs))
    IN  [i \in 1..Len(urls) |-> [win |-> w, conn |-> c, url |-> urls[Len(urls) + 1 - i]]]

\* The events a handler sends to its window for payload bs.
Events(c, w, bs) ==
    LET urls == Dispatched(Split(bs))
    IN  [i \in 1..Len(urls) |-> [win |-> w, conn |-> c, url |-> urls[i]]]

\* The handler of connection c: io.ReadAll returns at end of input (the
\* peer closed), the payload is split and parsed, every URL is sent to the
\* window of the accept loop, conn.Close.
Handle(c) ==
    /\ conn[c].st = "accepted"
    /\ conn[c].closed
    /\ pc[conn[c].to] = "app"
    /\ sink' = [sink EXCEPT ![conn[c].to] = @ \o Events(c, conn[c].win, conn[c].data)]
    /\ conn' = [conn EXCEPT ![c].st = "done"]
    /\ UNCHANGED <<pc, probe, status, dials, socketConn, loops, socketFile, backlog, args, mimeType, acceptErrs>>

\* AfterReadError with the "return" left out: the handler goes on to split
\* and dispatch what was read.
AfterReadErrorFallThrough(c) ==
    /\ sink' = [sink EXCEPT ![conn[c].to] = @ \o Events(c, conn[c].win, conn[c].data)]
    /\ conn' = [conn EXCEPT ![c].st = "failed"]

\* What the handler does when io.ReadAll returns an error: it returns, and
\* its deferred conn.Close runs. No event is sent.
AfterReadError(c) ==
    /\ sink' = sink
    /\ conn' = [conn EXCEPT ![c].st = "failed"]

\* io.ReadAll of the handler of connection c returns an error (the
\* connection was reset, the read failed): the handler gives up.
ReadErr(c) ==
    /\ conn[c].st = "accepted"
    /\ pc[conn[c].to] = "app"
    /\ AfterReadError(c)
    /\ UNCHANGED <<pc, probe, status, dials, socketConn, loops, socketFile, backlog, args, mimeType, acceptErrs>>

\* One step of any process, launched with arguments among argLists.
Step(argLists) ==
    \/ \E p \in Procs : InitDisabled(p)
    \/ \E p \in Procs : DialOK(p)
    \/ \E p \in Procs : DialRefused(p)
    \/ \E p \in Procs : DialNoEnt(p)
    \/ \E p \in Procs : DialOther(p)
    \/ \E p \in Procs : Remove(p)
    \/ \E p \in Procs : Listen(p)
    \/ \E p \in Procs : DesktopOK(p)
    \/ \E p \in Procs : DesktopFail(p)
    \/ \E p \in Procs : \E a \in argLists : Write(p, a)
    \/ \E p \in Procs : CloseConn(p)
    \/ \E p \in Procs : NewWindow(p)
    \/ \E p \in Procs : Exit(p)
    \/ \E p \in Procs : Kill(p)
    \/ \E q \in Procs : \E w \in 1..MaxWindows : Accept(q, w)
    \/ \E c \in Procs : Handle(c)
    \/ \E c \in Procs : ReadErr(c)
    \/ \E q \in Procs : \E w \in 1..MaxWindows : AcceptErr(q, w)

Next == Step(ArgLists)

Spec == Init /\ [][Next]_vars

\* The launches of the fair specification: without arguments, or with one
\* URL. Its applications open up to MaxWindows windows.
LiveArgLists == {<<>>, <<<<Letter>>>>}

FairNext == Step(LiveArgLists) \/ \E p \in Procs : AnotherWindow(p)

\* The scheduler runs every goroutine of a live process: an accept loop with
\* a queued connection accepts it, a handler whose input ended finishes.
\* Nothing makes a peer write or close, and nothing keeps a process alive.
FairSpec ==
    /\ Init /\ [][FairNext]_vars
    /\ \A q \in Procs : \A w \in 1..MaxWindows : WF_vars(Accept(q, w))
    /\ \A c \in Procs : WF_vars(Handle(c))

\* ------------------------------------------------------------- observations
\* The URLs the windows of c's peer received for connection c, in order.
SinkURLs(c) ==
    LET mine == SelectSeq(sink[conn[c].to], LAMBDA e : e.conn = c)
    IN  [i \in 1..Len(mine) |-> mine[i].url]

\* The handler of d was started by process q and is blocked in io.ReadAll:
\* its peer has not closed.
Blocked(d, q) == conn[d].to = q /\ conn[d].st = "accepted" /\ ~conn[d].closed

\* Connection c was handled and its URLs are in the sink.
Delivered(c) ==
    /\ conn[c].st = "done"
    /\ SinkURLs(c) = Dispatched(Split(conn[c].data))

\* The handler of connection c gave up on a read error.
ReadFailed(c) == conn[c].st = "failed"

\* The process connection c was made to is serving (init() returned).
PeerRuns(c) == conn[c].to \in Procs /\ pc[conn[c].to] = "app"

\* The processes that have run net.Dial.
Launched == {p \in Procs : dials[p] > 0}

\* init() ended in log.Fatal(err) after net.Listen failed.
FatalBind(p) ==
    pc[p] = "exited" /\ probe[p] \in {"Stale", "Absent"} /\ socketConn[p] = "nil"

\* init() ended in log.Fatal(err) after createDesktopEntry failed.
FatalDesktop(p) ==
    pc[p] = "exited" /\ status[p] = "exit1" /\ socketConn[p] = "closed"

\* The process relayed to a running instance and ended.
EndedFollower(p) == pc[p] = "exited" /\ probe[p] = "Alive"

\* The process holds the socket and runs the application.
EndedLeader(p) == pc[p] = "app" /\ socketConn[p] = "open"

\* The fragments of connection c's payload.
Fragments(c) == Split(conn[c].data)

\* ------------------------------------------------------------- claims

\* C1: when every launched process has finished init(), none of them hit an
\* input/output error outside the race (a dial error other than
\* ECONNREFUSED/ENOENT, a createDesktopEntry failure) and no leader has
\* ended yet, exactly one process is Leader and every other one is a
\* Follower.
C1_SingleLeadership ==
    (/\ Launched # {}
     /\ \A p \in Launched :
            /\ pc[p] \in {"app", "exited"}
            /\ probe[p] # "Other"
            /\ ~FatalDesktop(p)
            /\ status[p] \notin {"exit0", "signal"})
    => /\ Cardinality({p \in Launched : EndedLeader(p)}) = 1
       /\ \A p \in Launched : EndedLeader(p) \/ EndedFollower(p)

\* C2: at most one process holds an open listener for the socket file.
C2_AtMostOneListener ==
    Cardinality({p \in Procs : socketConn[p] = "open"}) <= 1

\* C3: when a single process has launched and its dial met no other
\* input/output error, a stale socket file is classified Stale and is about
\* to be removed; after the removal the path is free, the bind succeeds, and
\* while init() or the application runs the process holds the open listener
\* and the socket file is its own.
C3_StaleRecovery ==
    \A p \in Procs :
        (Launched = {p} /\ probe[p] # "Other") =>
            /\ socketFile = StaleFile => (probe[p] = "Stale" /\ pc[p] = "remove")
            /\ probe[p] = "Stale" =>
                  /\ pc[p] = "remove" => socketFile = StaleFile
                  /\ pc[p] = "listen" => socketFile = NoFile
                  /\ pc[p] \notin {"remove", "listen"} => socketConn[p] # "nil"
                  /\ pc[p] \in {"desktop", "app"} =>
                        (socketConn[p] = "open" /\ socketFile = [exists |-> TRUE, owner |-> p])

\* C3 witness: the only launched process found the file stale and now runs
\* the application on its own socket.
C3_Witness ==
    \E p \in Procs :
        /\ Launched = {p} /\ probe[p] = "Stale"
        /\ pc[p] = "app" /\ socketConn[p] = "open"
        /\ socketFile = [exists |-> TRUE, owner |-> p]

\* Every argument parses as a URL (so it holds no newline).
AllParse(a) == \A i \in 1..Len(a) : ParseOK(a[i])

\* C4: once the handler of a connection is done, if its peer was launched
\* with n >= 1 arguments that all parse, the sink holds exactly n events for
\* that connection and the i-th URL prints as the i-th argument.
C4_RelayCorrect ==
    \A c \in Procs :
        (conn[c].st = "done" /\ Len(args[c]) >= 1 /\ AllParse(args[c])) =>
            /\ Len(SinkURLs(c)) = Len(args[c])
            /\ \A i \in 1..Len(args[c]) : URLString(SinkURLs(c)[i]) = args[c][i]

\* C4 witness: a handled connection whose peer had MaxArgs non-empty
\* arguments, all of them URLs, one of them with a scheme when it fits.
C4_Witness ==
    \E c \in Procs :
        /\ conn[c].st = "done"
        /\ Len(args[c]) = MaxArgs /\ AllParse(args[c])
        /\ \A i \in 1..Len(args[c]) : Len(args[c][i]) = MaxArgLen
        /\ Len(SinkURLs(c)) = MaxArgs

\* C5: once the handler of a connection is done, every non-empty fragment of
\* its payload that parses has its URL in the sink, whether or not a
\* fragment before it failed to parse.
C5_PartialPayload ==
    \A c \in Procs :
        conn[c].st = "done" =>
            \A i \in 1..Len(Fragments(c)) :
                (ParseOK(Fragments(c)[i]) /\ Len(Fragments(c)[i]) > 0) =>
                    \E j \in 1..Len(SinkURLs(c)) : SinkURLs(c)[j] = Parse(Fragments(c)[i])

\* C6: a Leader that ended by os.Exit(0) or by a termination signal has its
\* listener closed and its socket file removed.
C6_CleanShutdown ==
    \A p \in Procs :
        status[p] \in {"exit0", "signal"} =>
            /\ socketConn[p] = "closed"
            /\ ~(socketFile.exists /\ socketFile.owner = p)

\* C7: a connection that was written and closed by its peer and waits in
\* the backlog of a serving process, while the handler of another connection
\* of that process is blocked reading, is eventually handled and its URLs
\* dispatched, unless its own read fails or the serving process ends.
C7_AcceptNotBlocked ==
    \A c \in Procs :
        (/\ conn[c].st = "queued" /\ conn[c].closed
         /\ PeerRuns(c)
         /\ \E d \in Procs : Blocked(d, conn[c].to))
        ~> (Delivered(c) \/ ReadFailed(c) \/ ~PeerRuns(c))

\* C7 witness: a connection was delivered while the handler of an earlier
\* connection of the same process is still blocked reading.
C7_Witness ==
    \E c \in Procs : \E d \in Procs :
        /\ c # d
        /\ Delivered(c)
        /\ PeerRuns(c)
        /\ Blocked(d, conn[c].to)

\* C8: a process whose dial succeeded never binds the socket and never runs
\* the application: it is writing, closing, or has ended with status 1 and
\* its connection closed.
C8_FollowerNeverBinds ==
    \A p \in Procs :
        probe[p] = "Alive" =>
            /\ socketConn[p] = "nil"
            /\ ~(socketFile.exists /\ socketFile.owner = p)
            /\ pc[p] \in {"write", "close", "exited"}
            /\ pc[p] = "exited" => (status[p] = "exit1" /\ conn[p].closed)

\* C8 witness: a follower whose write failed (its peer had ended, nothing
\* of its URL arrived) has ended.
C8_Witness ==
    \E p \in Procs :
        /\ pc[p] = "exited" /\ probe[p] = "Alive"
        /\ Len(Payload(args[p])) > 0
        /\ conn[p].data = <<>>
        /\ status[conn[p].to] # "running"

\* C9: no event is dispatched for an empty fragment: no URL in the sink is
\* the URL of the empty string.
C9_NoEventForEmpty ==
    \A c \in Procs :
        conn[c].st = "done" =>
            \A j \in 1..Len(SinkURLs(c)) : SinkURLs(c)[j] # Parse(<<>>)

\* C10: a process that ended on a failed bind had retried the probe once:
\* it dialled twice.
C10_RetryOnce ==
    \A p \in Procs : FatalBind(p) => dials[p] = 2


\* C12: the step that ends a Leader (os.Exit(0) or a termination signal)
\* runs the shutdown sequence: after it the listener is closed and no
\* socket file is left at the path.
C12_ShutdownRuns ==
    [][\A p \in Procs :
          (status[p] = "running" /\ status'[p] \in {"exit0", "signal"}
           /\ socketConn[p] = "open")
          => (socketConn'[p] = "closed" /\ ~socketFile'.exists)]_vars

\* C13: once the handler of a connection is done, the j-th URL the sink
\* holds for the connection is the URL of the j-th fragment of its payload.
C13_DispatchOrder ==
    \A c \in Procs :
        conn[c].st = "done" =>
            /\ Len(SinkURLs(c)) <= Len(Fragments(c))
            /\ \A j \in 1..Len(SinkURLs(c)) : SinkURLs(c)[j] = Parse(Fragments(c)[j])

\* C13 witness: a handled connection with two events of different URLs.
C13_Witness ==
    \E c \in Procs :
        /\ conn[c].st = "done"
        /\ Len(SinkURLs(c)) >= 2
        /\ SinkURLs(c)[1] # SinkURLs(c)[2]

\* C14: a process whose dial failed with another error has ended with
\* status 1 without a listener and without a socket file of its own, and
\* the step in which the dial failed left the socket file as it was.
C14_OtherErrorFatal ==
    [][\A p \in Procs :
          probe'[p] = "Other" =>
              /\ pc'[p] = "exited" /\ status'[p] = "exit1"
              /\ socketConn'[p] = "nil"
              /\ ~(socketFile'.exists /\ socketFile'.owner = p)
              /\ probe[p] # "Other" => socketFile' = socketFile]_vars

\* C14 witness: a dial failed with another error while a stale socket file
\* was on disk, and the file is still there.
C14_Witness ==
    \E p \in Procs :
        /\ probe[p] = "Other" /\ pc[p] = "exited"
        /\ Launched = {p}
        /\ socketFile = StaleFile

\* C15: a step of the probe (net.Dial, or the os.Remove that follows it)
\* changes the socket file only when the dial was classified Stale, and then
\* it removes it.
C15_ProbeFrame ==
    [][\A p \in Procs :
          (pc[p] \in {"dial", "remove"} /\ pc'[p] # pc[p]) =>
              IF pc[p] = "remove" /\ probe[p] = "Stale"
              THEN socketFile' = NoFile
              ELSE socketFile' = socketFile]_vars

\* C15 witness: one process was classified Alive and the socket file of its
\* peer is still on disk, another was classified Stale and has removed the
\* stale file.
C15_Witness ==
    \E p \in Procs : \E q \in Procs :
        /\ probe[p] = "Alive"
        /\ socketFile = [exists |-> TRUE, owner |-> conn[p].to]
        /\ probe[q] = "Stale" /\ pc[q] # "remove"

\* C17: while a process holds its open listener, the socket file it bound
\* is on disk.
C17_ArtifactStays ==
    \A p \in Procs :
        socketConn[p] = "open" => socketFile = [exists |-> TRUE, owner |-> p]

\* C20: with an empty mimeType no process dials, removes, binds or
\* connects, every listener stays nil, nothing is queued, accepted or
\* dispatched, no process ends in log.Fatal, and the socket file is never
\* changed.
C20_Disabled ==
    /\ [](mimeType = "" =>
            \A p \in Procs :
                /\ dials[p] = 0 /\ probe[p] = "None"
                /\ socketConn[p] = "nil"
                /\ conn[p] = NoConn /\ backlog[p] = <<>> /\ sink[p] = <<>>
                /\ pc[p] \in {"dial", "app", "exited"}
                /\ status[p] # "exit1"
                /\ \A w \in 1..MaxWindows : ~ENABLED Accept(p, w))
    /\ [][mimeType = "" => socketFile' = socketFile]_vars

\* C20 witness: with an empty mimeType every process runs the application
\* with a window at the same time, next to a stale socket file.
C20_Witness ==
    /\ mimeType = ""
    /\ \A p \in Procs : pc[p] = "app" /\ loops[p] >= 1
    /\ socketFile = StaleFile

\* The connections process q holds in its backlog, accepted or handled.
InBacklog(c, q) == \E i \in 1..Len(backlog[q]) : backlog[q][i] = c

\* C11: a step in which socketConn.Accept returns an error ends the accept
\* loop that called it: the process runs one loop fewer after it.
C11_AcceptErrorEndsLoop ==
    [][\A q \in Procs :
          acceptErrs'[q] > acceptErrs[q] => loops'[q] < loops[q]]_vars

\* C16: no event is in the sink for a connection whose read failed, and a
\* connection that was written and closed by its peer and waits in the
\* backlog of a serving process where the read of another connection has
\* failed is eventually handled and its URLs dispatched, unless its own read
\* fails or the serving process ends.
C16_ReadErrorIsolated ==
    /\ [](\A c \in Procs : ReadFailed(c) => SinkURLs(c) = <<>>)
    /\ \A d \in Procs :
           (/\ conn[d].st = "queued" /\ conn[d].closed
            /\ PeerRuns(d)
            /\ \E c \in Procs : c # d /\ ReadFailed(c) /\ conn[c].to = conn[d].to)
           ~> (Delivered(d) \/ ReadFailed(d) \/ ~PeerRuns(d))

\* C16 witness: the read of a connection that carried a URL failed, nothing
\* was dispatched for it, and another connection of the same process was
\* delivered with its URL.
C16_Witness ==
    \E c \in Procs : \E d \in Procs :
        /\ c # d
        /\ ReadFailed(c) /\ Len(conn[c].data) > 0 /\ SinkURLs(c) = <<>>
        /\ conn[d].to = conn[c].to
        /\ Delivered(d) /\ Len(SinkURLs(d)) >= 1
        /\ PeerRuns(d)

\* C18: a dial made while the owner of the socket file holds its open
\* listener and runs no accept loop yet is not refused: unless it fails with
\* another error it is classified Alive and queued on that listener; what
\* the follower wrote stays queued while the owner runs; and once the owner
\* serves with a window, a queued connection that was written and closed is
\* eventually handled and its URLs dispatched, unless its read fails or the
\* owner ends.
C18_BindBeforeServe ==
    /\ [][\A p \in Procs :
             (/\ pc[p] = "dial" /\ pc'[p] # "dial" /\ mimeType # ""
              /\ socketFile.exists /\ socketFile.owner \in Procs
              /\ socketConn[socketFile.owner] = "open"
              /\ loops[socketFile.owner] = 0)
             => /\ probe'[p] \in {"Alive", "Other"}
                /\ probe'[p] = "Alive" =>
                       (conn'[p].to = socketFile.owner /\ conn'[p].st = "queued")]_vars
    /\ [](\A c \in Procs :
             (/\ conn[c].st = "queued" /\ pc[c] \in {"close", "exited"}
              /\ status[conn[c].to] = "running")
             => conn[c].data = Payload(args[c]))
    /\ \A c \in Procs :
           (/\ conn[c].st = "queued" /\ conn[c].closed
            /\ PeerRuns(c)
            /\ loops[conn[c].to] >= 1)
           ~> (Delivered(c) \/ ReadFailed(c) \/ ~PeerRuns(c))

\* C18 witness: a follower was classified Alive, wrote a URL and closed while
\* its peer was still in init() after net.Listen, with no accept loop; the
\* payload waits in the backlog.
C18_Witness ==
    \E c \in Procs :
        /\ probe[c] = "Alive" /\ pc[c] = "exited"
        /\ conn[c].st = "queued" /\ conn[c].closed
        /\ Len(conn[c].data) > 0
        /\ pc[conn[c].to] = "desktop" /\ loops[conn[c].to] = 0

\* C19: every accept loop of a serving process can accept from its
\* listener; a connection is in one backlog exactly while it is queued, and
\* once accepted it belongs to one accept loop of its peer; every event in
\* a sink went to the window of the loop that accepted its connection, and
\* a handled connection has each of its URLs in the sink exactly once.
C19_OneLoopPerConnection ==
    /\ \A q \in Procs : \A w \in 1..loops[q] :
           (pc[q] = "app" /\ socketConn[q] = "open" /\ Len(backlog[q]) > 0)
           => ENABLED Accept(q, w)
    /\ \A c \in Procs : \A q \in Procs :
           /\ InBacklog(c, q) <=> (conn[c].st = "queued" /\ conn[c].to = q)
           /\ Cardinality({i \in 1..Len(backlog[q]) : backlog[q][i] = c}) <= 1
    /\ \A c \in Procs :
           conn[c].st \in {"accepted", "done", "failed"} =>
               conn[c].win \in 1..loops[conn[c].to]
    /\ \A q \in Procs : \A i \in 1..Len(sink[q]) :
           /\ conn[sink[q][i].conn].to = q
           /\ conn[sink[q][i].conn].st = "done"
           /\ sink[q][i].win = conn[sink[q][i].conn].win
    /\ \A c \in Procs :
           conn[c].st = "done" => SinkURLs(c) = Dispatched(Fragments(c))

\* C19 witness: a process with two windows handled two connections, one in
\* each accept loop, and each window received the one URL of its connection.
C19_Witness ==
    \E c \in Procs : \E d \in Procs :
        /\ conn[c].st = "done" /\ conn[d].st = "done"
        /\ conn[c].to = conn[d].to
        /\ loops[conn[c].to] = MaxWindows
        /\ conn[c].win = 1 /\ conn[d].win = MaxWindows
        /\ Len(SinkURLs(c)) = 1 /\ Len(SinkURLs(d)) = 1
        /\ \E i \in 1..Len(sink[conn[c].to]) : \E j \in 1..Len(sink[conn[c].to]) :
               /\ sink[conn[c].to][i] = [win |-> 1, conn |-> c, url |-> SinkURLs(c)[1]]
               /\ sink[conn[c].to][j] = [win |-> MaxWindows, conn |-> d, url |-> SinkURLs(d)[1]]

====
